---- MODULE Spec2Model ----
(***************************************************************************)
(* Model of the load generators and of the migration monitor of the       *)
(* Redis/Valkey comparison suite:                                          *)
(*   src/src/benchmarks/simple_kv_benchmark.py      (KeyValueBenchmark)    *)
(*   src/src/benchmarks/data_structure_benchmark.py (DataStructureBenchmark)*)
(*   src/src/monitor_engine_migration.py    (ElasticacheMigrationMonitor)  *)
(* Workers are threads of a ThreadPoolExecutor; a worker is interleaved    *)
(* with the others at every blocking network call.  Wall-clock time is a   *)
(* logical clock that advances with every datetime.now() of run(); an      *)
(* elapsed time a worker measures is an input drawn from ElapsedSet.       *)
(***************************************************************************)
EXTENDS Integers, Sequences, FiniteSets, TLC

\* ---------------------------------------------------------------- bounds
MaxThreads  == 2
MaxOps      == 3
MaxTotalOps == 4
MaxPipe     == 2
MaxElapsed  == 2

Workers == 1 .. MaxThreads

\* ------------------------------------------------------- small arithmetic
RECURSIVE Gcd(_, _)
Gcd(a, b) == IF b = 0 THEN a ELSE Gcd(b, a % b)

RECURSIVE LcmUpTo(_)
LcmUpTo(n) == IF n <= 1 THEN 1 ELSE (LcmUpTo(n - 1) * n) \div Gcd(LcmUpTo(n - 1), n)

\* One millisecond is TimeUnit ticks, so that elapsed / pipe_count is exact
\* for every pipe_count a worker can reach (at most operations_per_thread).
TimeUnit == LcmUpTo(MaxOps + 1)

\* (end_time - start_time) * 1000 of one timed section
ElapsedSet == { TimeUnit * t : t \in 1 .. MaxElapsed }

RECURSIVE Repeat(_, _)
Repeat(x, n) == IF n <= 0 THEN <<>> ELSE <<x>> \o Repeat(x, n - 1)

RECURSIVE SumSeq(_)
SumSeq(s) == IF s = <<>> THEN 0 ELSE Head(s) + SumSeq(Tail(s))

\* [x for x in s if ...]: the elements of s at the indices in keep, in order
SelectIdx(s, keep) ==
    LET F[i \in 0 .. Len(s)] ==
          IF i = 0 THEN <<>>
          ELSE IF i \in keep THEN Append(F[i - 1], s[i]) ELSE F[i - 1]
    IN  F[Len(s)]

\* ------------------------------------------------------------ statistics
\* A quotient of two integers that Python computes in floating point
\* (statistics.mean, a throughput) is kept exact as numerator and denominator.
Ratio(a, b) == [num |-> a, den |-> b]

RECURSIVE Insert(_, _)
Insert(x, s) ==
    IF s = <<>> THEN <<x>>
    ELSE IF x <= Head(s) THEN <<x>> \o s
    ELSE <<Head(s)>> \o Insert(x, Tail(s))

\* sorted(times): ascending
RECURSIVE sorted(_)
sorted(s) == IF s = <<>> THEN <<>> ELSE Insert(Head(s), sorted(Tail(s)))

\* int(len(times) * 0.95), int(len(times) * 0.99): the double product
\* truncates to the same integer as floor(pct * n / 100) for every list
\* length below 2 * 10^6 (checked exhaustively against CPython floats).
PercentileIndexOverNMinus1(n, pct) == ((n - 1) * pct) \div 100

PercentileIndex(n, pct) == (n * pct) \div 100

\* sorted(times)[int(len(times) * pct / 100)]: Python indexes from 0
Percentile(times, pct) == sorted(times)[PercentileIndex(Len(times), pct) + 1]

\* statistics.median
Median(times) ==
    LET s == sorted(times)
        n == Len(times)
    IN  IF n % 2 = 1 THEN Ratio(s[(n \div 2) + 1], 1)
        ELSE Ratio(s[n \div 2] + s[(n \div 2) + 1], 2)

\* One latency table: the dict literal built for all_stats, for a structure,
\* for an operation type, for get_stats and for set_stats.
LatencyStats(times, count, duration_sec) ==
    [ min        |-> sorted(times)[1],
      max        |-> sorted(times)[Len(times)],
      avg        |-> Ratio(SumSeq(times), Len(times)),
      median     |-> Median(times),
      p95        |-> Percentile(times, 95),
      p99        |-> Percentile(times, 99),
      throughput |-> Ratio(count, duration_sec) ]

\* --- data_structure_benchmark.py, BenchmarkResult
DataStructureType == {"string", "list", "hash", "set", "zset"}

total_operations(res) == Len(res.operation_results)

successful_operations(res) ==
    Cardinality({ i \in 1 .. Len(res.operation_results) : res.operation_results[i].success })

errors_of(res) == total_operations(res) - successful_operations(res)

\* the indices of the successful records, of a structure, of an operation type
Successful(res) ==
    { j \in 1 .. Len(res.operation_results) : res.operation_results[j].success }

SuccessfulOf(res, ds) ==
    { j \in Successful(res) : res.operation_results[j].data_structure = ds }

SuccessfulOfType(res, ds, op) ==
    { j \in SuccessfulOf(res, ds) : res.operation_results[j].operation_type = op }

\* [r.duration_ms for r in self.operation_results if ...]
DurationsWhere(res, keep) ==
    LET kept == SelectIdx(res.operation_results, keep)
    IN  [ j \in 1 .. Len(kept) |-> kept[j].duration_ms ]

NoOperationsRecorded == [error |-> "No operations recorded"]

SameTextAsNothingRan == [error |-> "No operations recorded"]

NoSuccessfulOperationsRecorded == [error |-> "No successful operations recorded"]

structure_stats_ds(res, duration_sec) ==
    LET ds_times(ds) == DurationsWhere(res, SuccessfulOf(res, ds))
        op_types(ds) == { res.operation_results[j].operation_type : j \in SuccessfulOf(res, ds) }
        op_times(ds, op) == DurationsWhere(res, SuccessfulOfType(res, ds, op))
    IN  [ ds \in { d \in DataStructureType : ds_times(d) # <<>> } |->
            [ operations |-> Len(ds_times(ds)),
              stats      |-> LatencyStats(ds_times(ds), Len(ds_times(ds)), duration_sec),
              operations_by_type |->
                 [ op \in op_types(ds) |->
                     [ operations |-> Len(op_times(ds, op)),
                       stats      |-> LatencyStats(op_times(ds, op),
                                                   Len(op_times(ds, op)), duration_sec) ] ] ] ]

calculate_stats_ds(res) ==
    LET duration_sec == res.end_time - res.start_time
        all_times    == DurationsWhere(res, Successful(res))
    IN  IF res.operation_results = <<>> THEN NoOperationsRecorded
        ELSE IF all_times = <<>> THEN NoSuccessfulOperationsRecorded
        ELSE [ duration_sec          |-> duration_sec,
               total_operations      |-> total_operations(res),
               successful_operations |-> successful_operations(res),
               operations_per_sec    |-> Ratio(successful_operations(res), duration_sec),
               errors                |-> errors_of(res),
               all_stats             |-> LatencyStats(all_times, successful_operations(res),
                                                      duration_sec),
               structure_stats       |-> structure_stats_ds(res, duration_sec) ]

\* --- simple_kv_benchmark.py, BenchmarkResult
\* zip(operation_times, operation_types) stops at the shorter list
TimesOfType(res, op) ==
    LET n == IF Len(res.operation_times) <= Len(res.operation_types)
             THEN Len(res.operation_times) ELSE Len(res.operation_types)
    IN  SelectIdx(SubSeq(res.operation_times, 1, n),
                  { j \in 1 .. n : res.operation_types[j] = op })

TypeStats(times, duration_sec) ==
    IF times = <<>> THEN [ empty |-> TRUE ]      \* the dict {}
    ELSE LatencyStats(times, Len(times), duration_sec)

calculate_stats_kv(res) ==
    LET duration_sec == res.end_time - res.start_time
        total        == Len(res.operation_times)
    IN  IF res.operation_times = <<>> THEN NoOperationsRecorded
        ELSE [ duration_sec       |-> duration_sec,
               total_operations   |-> total,
               operations_per_sec |-> Ratio(total, duration_sec),
               errors             |-> res.errors,
               all_stats          |-> LatencyStats(res.operation_times, total, duration_sec),
               get_stats          |-> TypeStats(TimesOfType(res, "GET"), duration_sec),
               set_stats          |-> TypeStats(TimesOfType(res, "SET"), duration_sec) ]

\* --- print_summary: the keys it subscripts before printing anything else
SummaryKeysDS == {"duration_sec", "total_operations", "successful_operations",
                  "operations_per_sec", "errors", "all_stats"}

SummaryKeysKV == {"duration_sec", "total_operations", "operations_per_sec",
                  "errors", "all_stats"}

\* "printed" when every subscript finds its key, "KeyError" otherwise
print_summary_ds(st) == IF SummaryKeysDS \subseteq DOMAIN st THEN "printed" ELSE "KeyError"

print_summary_kv(st) == IF SummaryKeysKV \subseteq DOMAIN st THEN "printed" ELSE "KeyError"

\* ------------------------------------------------------- operation tables
\* the random.choice lists of _perform_<structure>_operation
ReadOps(ds) ==
    CASE ds = "string" -> {"GET"}
      [] ds = "list"   -> {"LRANGE", "LINDEX", "LLEN"}
      [] ds = "hash"   -> {"HGET", "HMGET", "HGETALL", "HLEN"}
      [] ds = "set"    -> {"SMEMBERS", "SISMEMBER", "SCARD"}
      [] ds = "zset"   -> {"ZRANGE", "ZREVRANGE", "ZCARD", "ZSCORE"}

WriteOps(ds) ==
    CASE ds = "string" -> {"SET"}
      [] ds = "list"   -> {"LPUSH", "RPUSH", "LPOP", "RPOP"}
      [] ds = "hash"   -> {"HSET", "HMSET", "HDEL"}
      [] ds = "set"    -> {"SADD", "SREM"}
      [] ds = "zset"   -> {"ZADD", "ZREM", "ZINCRBY"}

\* DataStructureBenchmark.__init__: self.data_structures
data_structures_of(data_structure) ==
    IF data_structure = "all" THEN DataStructureType ELSE {data_structure}

\* --data-structure values a run of the model is configured with
StructureChoices == {"string"}

\* read_write_ratio and random.random() in halves: ratio 2 is 1.0, and a
\* draw is 0 (below 0.5) or 1 (0.5 or above, always below 1.0).
RatioChoices == {0, 1, 2}

RandomDraws == {0, 1}

\* client identities: self.client of the benchmark object, and the client
\* that worker w creates with self._create_client()
SelfClient == 0

NoClient == 0 - 1

OwnClient(w) == w

Unset == 0 - 1

\* ------------------------------------------------------------------ state
VARIABLES
    config,            \* BenchmarkConfig, and which benchmark is run
    run_pc,            \* position of main / run()
    now,               \* the logical wall clock
    start_time, end_time,
    submitted,         \* number of futures submitted so far
    collected,         \* workers whose future.result() has been consumed
    operation_times, operation_types, errors,   \* self.* of KeyValueBenchmark
    operation_results,                          \* self.* of DataStructureBenchmark
    result,            \* the BenchmarkResult run() builds
    earlier_result,    \* the BenchmarkResult an earlier run() of the object returned
    stats,             \* the dict calculate_stats returned last
    wpc,               \* position of each worker
    i,                 \* loop index of each worker
    is_read, ds_type, op_choice, elapsed,
    local_times, local_op_types, local_errors,
    pipe_count, pipe_times, pipe_op_types,
    local_results,
    in_flight,         \* the client a worker's command is in flight on
    round_trips,       \* network round trips a worker has completed
    invocations,       \* times the pool has called _perform_operation(w)
    \* --- ElasticacheMigrationMonitor
    mon_pc,            \* position of main() / signal_handler of the monitor
    running,           \* self.running
    utc,               \* the clock datetime.utcnow() reads
    connection_status, latency_metrics,         \* self.* logs of the probe loop
    metrics_queue,     \* self.metrics_queue, oldest item first
    \* the threads of each start_monitoring call that started threads
    probe_pc,          \* position of the thread running _run_connection_tests
    connected, read_latency, write_latency,     \* locals of _test_connection
    status_pc,         \* position of the thread running _print_status_update
    cw_pc,             \* position of the thread running _monitor_cloudwatch
    cloudwatch_metrics,                         \* self.cloudwatch_metrics
    cw_polls,          \* metrics polls made so far
    report             \* what generate_report wrote last

runVars == <<run_pc, start_time, end_time, submitted, collected, operation_times,
             operation_types, errors, operation_results, result, stats>>

localVars == <<i, is_read, ds_type, op_choice, elapsed, local_times, local_op_types,
               local_errors, pipe_count, pipe_times, pipe_op_types, local_results>>

workerVars == <<wpc, localVars, in_flight, round_trips, invocations>>

benchVars == <<config, now, earlier_result, runVars, workerVars>>

probeVars == <<probe_pc, connected, read_latency, write_latency>>

monVars == <<mon_pc, running, utc, connection_status, latency_metrics, metrics_queue,
             probeVars, status_pc, cw_pc, cloudwatch_metrics, cw_polls, report>>

vars == <<benchVars, monVars>>

\* the configurations a run of the model starts from: the command line of
\* main(), with num_threads * operations_per_thread (total_operations of
\* BenchmarkConfig.to_dict) kept within MaxTotalOps
Configs ==
    { c \in [ bench : {"kv"}, data_structure : {"none"},
              num_threads : 1 .. MaxThreads, operations_per_thread : 0 .. MaxOps,
              pipeline_size : 0 .. MaxPipe, read_write_ratio : RatioChoices ]
            \cup
            [ bench : {"ds"}, data_structure : StructureChoices,
              num_threads : 1 .. MaxThreads, operations_per_thread : 0 .. MaxOps,
              pipeline_size : 0 .. MaxPipe, read_write_ratio : RatioChoices ] :
        c.num_threads * c.operations_per_thread <= MaxTotalOps }

Threads == 1 .. config.num_threads

NoResult == [none |-> TRUE]

NoStats == [none |-> TRUE]

InitWorkers ==
    /\ wpc = [w \in Workers |-> "unborn"]
    /\ i = [w \in Workers |-> 0]
    /\ is_read = [w \in Workers |-> FALSE]
    /\ ds_type = [w \in Workers |-> "none"]
    /\ op_choice = [w \in Workers |-> "none"]
    /\ elapsed = [w \in Workers |-> 0]
    /\ local_times = [w \in Workers |-> <<>>]
    /\ local_op_types = [w \in Workers |-> <<>>]
    /\ local_errors = [w \in Workers |-> 0]
    /\ pipe_count = [w \in Workers |-> 0]
    /\ pipe_times = [w \in Workers |-> <<>>]
    /\ pipe_op_types = [w \in Workers |-> <<>>]
    /\ local_results = [w \in Workers |-> <<>>]
    /\ in_flight = [w \in Workers |-> NoClient]
    /\ round_trips = [w \in Workers |-> 0]
    /\ invocations = [w \in Workers |-> 0]

NoReport == [none |-> TRUE]

\* MaxStarts is the number of start_monitoring calls that start threads;
\* Starts names the three threads each such call creates
MaxStarts == 2

Starts == 1 .. MaxStarts

\* ElasticacheMigrationMonitor.__init__: empty logs, self.running = False,
\* an empty queue, no thread yet
InitMonitor ==
    /\ mon_pc = "constructed"
    /\ running = FALSE
    /\ utc = 0
    /\ connection_status = <<>>
    /\ latency_metrics = <<>>
    /\ metrics_queue = <<>>
    /\ probe_pc = [g \in Starts |-> "unborn"]
    /\ connected = [g \in Starts |-> FALSE]
    /\ read_latency = [g \in Starts |-> 0]
    /\ write_latency = [g \in Starts |-> 0]
    /\ status_pc = [g \in Starts |-> "unborn"]
    /\ cw_pc = [g \in Starts |-> "unborn"]
    /\ cloudwatch_metrics = <<>>
    /\ cw_polls = 0
    /\ report = NoReport

\* the attributes __init__ gives a benchmark object, and run() not yet called
InitRun ==
    /\ run_pc = "created"
    /\ start_time = Unset
    /\ end_time = Unset
    /\ submitted = 0
    /\ collected = {}
    /\ operation_times = <<>>
    /\ operation_types = <<>>
    /\ errors = 0
    /\ operation_results = <<>>
    /\ result = NoResult
    /\ earlier_result = NoResult
    /\ stats = NoStats

\* KeyValueBenchmark.__init__ / DataStructureBenchmark.__init__
Init ==
    /\ config \in Configs
    /\ now = 0
    /\ InitRun
    /\ InitWorkers
    /\ InitMonitor

\* ---------------------------------------------------------------- workers
use_pipeline == config.pipeline_size > 0

\* is_read = random.random() < self.config.read_write_ratio
IsRead(draw) == draw < config.read_write_ratio

op_time_by_pipeline_size(e, count) == e \div config.pipeline_size

\* op_time = elapsed / pipe_count
op_time(e, count) == e \div count

\* The thread pool starts self._perform_operation(w): the locals of
\* _perform_operation up to the loop, client = self._create_client() included.
WorkerBegin(w) ==
    /\ wpc[w] = "queued"
    /\ wpc' = [wpc EXCEPT ![w] = "loop"]
    /\ invocations' = [invocations EXCEPT ![w] = @ + 1]
    /\ i' = [i EXCEPT ![w] = 0]
    /\ local_times' = [local_times EXCEPT ![w] = <<>>]
    /\ local_op_types' = [local_op_types EXCEPT ![w] = <<>>]
    /\ local_errors' = [local_errors EXCEPT ![w] = 0]
    /\ pipe_count' = [pipe_count EXCEPT ![w] = 0]
    /\ pipe_times' = [pipe_times EXCEPT ![w] = <<>>]
    /\ pipe_op_types' = [pipe_op_types EXCEPT ![w] = <<>>]
    /\ local_results' = [local_results EXCEPT ![w] = <<>>]
    /\ UNCHANGED <<monVars, earlier_result, config, now, runVars, is_read, ds_type, op_choice, elapsed, in_flight,
                   round_trips>>

\* return from _perform_operation (or an exception leaving it)
Finish(w, how) == wpc' = [wpc EXCEPT ![w] = how]

\* --- simple_kv_benchmark.py, _perform_operation, pipeline_size = 0:
\* client.get(key) / client.set(key, value) is sent on the worker's client
KVIssue(w) ==
    /\ config.bench = "kv"
    /\ wpc[w] = "loop"
    /\ i[w] < config.operations_per_thread
    /\ ~use_pipeline
    /\ \E draw \in RandomDraws : is_read' = [is_read EXCEPT ![w] = IsRead(draw)]
    /\ in_flight' = [in_flight EXCEPT ![w] = OwnClient(w)]
    /\ wpc' = [wpc EXCEPT ![w] = "op"]
    /\ UNCHANGED <<monVars, earlier_result, config, now, runVars, i, ds_type, op_choice, elapsed, local_times,
                   local_op_types, local_errors, pipe_count, pipe_times, pipe_op_types,
                   local_results, round_trips, invocations>>

\* the command returns (its type and latency are appended) or raises
\* (except Exception: local_errors += 1)
KVComplete(w) ==
    /\ config.bench = "kv"
    /\ wpc[w] = "op"
    /\ \/ \E e \in ElapsedSet :
            /\ elapsed' = [elapsed EXCEPT ![w] = e]
            /\ local_op_types' = [local_op_types EXCEPT
                                    ![w] = Append(@, IF is_read[w] THEN "GET" ELSE "SET")]
            /\ local_times' = [local_times EXCEPT ![w] = Append(@, e)]
            /\ UNCHANGED local_errors
       \/ /\ local_errors' = [local_errors EXCEPT ![w] = @ + 1]
          /\ UNCHANGED <<elapsed, local_op_types, local_times>>
    /\ i' = [i EXCEPT ![w] = @ + 1]
    /\ wpc' = [wpc EXCEPT ![w] = "loop"]
    /\ in_flight' = [in_flight EXCEPT ![w] = NoClient]
    /\ round_trips' = [round_trips EXCEPT ![w] = @ + 1]
    /\ UNCHANGED <<monVars, earlier_result, config, now, runVars, is_read, ds_type, op_choice, pipe_count,
                   pipe_times, pipe_op_types, local_results,
                   invocations>>

\* pipeline_size > 0: pipe.get / pipe.set buffers the command; when
\* pipe_count >= pipeline_size, pipe.execute() is sent on the worker's client
KVQueue(w) ==
    /\ config.bench = "kv"
    /\ wpc[w] = "loop"
    /\ i[w] < config.operations_per_thread
    /\ use_pipeline
    /\ \E draw \in RandomDraws :
          /\ is_read' = [is_read EXCEPT ![w] = IsRead(draw)]
          /\ pipe_op_types' = [pipe_op_types EXCEPT
                                 ![w] = Append(@, IF IsRead(draw) THEN "GET" ELSE "SET")]
    /\ pipe_count' = [pipe_count EXCEPT ![w] = @ + 1]
    /\ IF pipe_count[w] + 1 >= config.pipeline_size
       THEN /\ wpc' = [wpc EXCEPT ![w] = "flush"]
            /\ in_flight' = [in_flight EXCEPT ![w] = OwnClient(w)]
            /\ UNCHANGED i
       ELSE /\ i' = [i EXCEPT ![w] = @ + 1]
            /\ UNCHANGED <<wpc, in_flight>>
    /\ UNCHANGED <<monVars, earlier_result, config, now, runVars, ds_type, op_choice, elapsed, local_times,
                   local_op_types, local_errors, pipe_times, local_results, round_trips, invocations>>

\* pipe.execute() of a full batch returns (the batch time is shared out,
\* pipe and pipe_count are reset) or raises (except Exception:
\* local_errors += 1, nothing is reset)
KVFlush(w) ==
    /\ config.bench = "kv"
    /\ wpc[w] = "flush"
    /\ \/ \E e \in ElapsedSet :
            /\ elapsed' = [elapsed EXCEPT ![w] = e]
            /\ pipe_times' = [pipe_times EXCEPT
                                ![w] = @ \o Repeat(op_time(e, pipe_count[w]), pipe_count[w])]
            /\ pipe_count' = [pipe_count EXCEPT ![w] = 0]
            /\ UNCHANGED local_errors
       \/ /\ local_errors' = [local_errors EXCEPT ![w] = @ + 1]
          /\ UNCHANGED <<elapsed, pipe_times, pipe_count>>
    /\ i' = [i EXCEPT ![w] = @ + 1]
    /\ wpc' = [wpc EXCEPT ![w] = "loop"]
    /\ in_flight' = [in_flight EXCEPT ![w] = NoClient]
    /\ round_trips' = [round_trips EXCEPT ![w] = @ + 1]
    /\ UNCHANGED <<monVars, earlier_result, config, now, runVars, is_read, ds_type, op_choice, local_times,
                   local_op_types, pipe_op_types, local_results,
                   invocations>>

\* after the loop: "if use_pipeline and pipe_count > 0" sends the remainder
\* batch; otherwise the worker returns its three locals
KVLoopEnd(w) ==
    /\ config.bench = "kv"
    /\ wpc[w] = "loop"
    /\ i[w] = config.operations_per_thread
    /\ IF use_pipeline /\ pipe_count[w] > 0
       THEN /\ wpc' = [wpc EXCEPT ![w] = "tailflush"]
            /\ in_flight' = [in_flight EXCEPT ![w] = OwnClient(w)]
       ELSE /\ Finish(w, "done")
            /\ UNCHANGED in_flight
    /\ UNCHANGED <<monVars, earlier_result, config, now, runVars, localVars, round_trips, invocations>>

\* pipe.execute() of the remainder batch, outside the try: on return the
\* batch time is shared out and pipe_times / pipe_op_types are merged into
\* the returned lists; an exception leaves _perform_operation
KVTailFlush(w) ==
    /\ config.bench = "kv"
    /\ wpc[w] = "tailflush"
    /\ \/ \E e \in ElapsedSet :
            LET times == pipe_times[w] \o Repeat(op_time(e, pipe_count[w]), pipe_count[w])
            IN  /\ elapsed' = [elapsed EXCEPT ![w] = e]
                /\ pipe_times' = [pipe_times EXCEPT ![w] = times]
                /\ local_times' = [local_times EXCEPT ![w] = @ \o times]
                /\ local_op_types' = [local_op_types EXCEPT ![w] = @ \o pipe_op_types[w]]
                /\ Finish(w, "done")
       \/ /\ Finish(w, "raised")
          /\ UNCHANGED <<elapsed, pipe_times, local_times, local_op_types>>
    /\ in_flight' = [in_flight EXCEPT ![w] = NoClient]
    /\ round_trips' = [round_trips EXCEPT ![w] = @ + 1]
    /\ UNCHANGED <<monVars, earlier_result, config, now, runVars, i, is_read, ds_type, op_choice, local_errors,
                   pipe_count, pipe_op_types, local_results, invocations>>

\* --- data_structure_benchmark.py
\* the client the _perform_<structure>_operation methods send commands on
OperationClient(w) == SelfClient

\* OperationResult(...) of the success path and of the except path; on the
\* except path operation_type is still unassigned ('operation_type' in
\* locals() is false): it is assigned after the client call returns
SuccessResult(op, ds, e) ==
    [ operation_type |-> op, data_structure |-> ds, duration_ms |-> e,
      success |-> TRUE, error |-> "None" ]

FailureResult(op, ds) ==
    [ operation_type |-> "UNKNOWN", data_structure |-> ds, duration_ms |-> 0,
      success |-> FALSE, error |-> "str(e)" ]

AppendResultIfSuccess(results, r) == IF r.success THEN Append(results, r) ELSE results

\* local_results.append(result)
AppendResult(results, r) == Append(results, r)

\* one loop iteration up to the client call of _perform_<structure>_operation
DSIssue(w) ==
    /\ config.bench = "ds"
    /\ wpc[w] = "loop"
    /\ i[w] < config.operations_per_thread
    /\ \E ds \in data_structures_of(config.data_structure), draw \in RandomDraws :
          /\ ds_type' = [ds_type EXCEPT ![w] = ds]
          /\ is_read' = [is_read EXCEPT ![w] = IsRead(draw)]
          /\ \E op \in (IF IsRead(draw) THEN ReadOps(ds) ELSE WriteOps(ds)) :
                op_choice' = [op_choice EXCEPT ![w] = op]
    /\ in_flight' = [in_flight EXCEPT ![w] = OperationClient(w)]
    /\ wpc' = [wpc EXCEPT ![w] = "op"]
    /\ UNCHANGED <<monVars, earlier_result, config, now, runVars, i, elapsed, local_times, local_op_types,
                   local_errors, pipe_count, pipe_times, pipe_op_types, local_results,
                   round_trips, invocations>>

\* the client call returns or raises; local_results.append(result)
DSComplete(w) ==
    /\ config.bench = "ds"
    /\ wpc[w] = "op"
    /\ \/ \E e \in ElapsedSet :
            /\ elapsed' = [elapsed EXCEPT ![w] = e]
            /\ local_results' = [local_results EXCEPT
                                   ![w] = AppendResult(@, SuccessResult(op_choice[w], ds_type[w], e))]
       \/ /\ local_results' = [local_results EXCEPT
                                 ![w] = AppendResult(@, FailureResult(op_choice[w], ds_type[w]))]
          /\ UNCHANGED elapsed
    /\ i' = [i EXCEPT ![w] = @ + 1]
    /\ wpc' = [wpc EXCEPT ![w] = "loop"]
    /\ in_flight' = [in_flight EXCEPT ![w] = NoClient]
    /\ round_trips' = [round_trips EXCEPT ![w] = @ + 1]
    /\ UNCHANGED <<monVars, earlier_result, config, now, runVars, is_read, ds_type, op_choice, local_times,
                   local_op_types, local_errors, pipe_count, pipe_times, pipe_op_types, invocations>>

\* return local_results
DSLoopEnd(w) ==
    /\ config.bench = "ds"
    /\ wpc[w] = "loop"
    /\ i[w] = config.operations_per_thread
    /\ Finish(w, "done")
    /\ UNCHANGED <<monVars, earlier_result, config, now, runVars, localVars, in_flight, round_trips, invocations>>

\* ------------------------------------------------------------------ run()
FirstFutureOnly == {1}

\* the futures run() submits and then iterates with as_completed
Futures == Threads

\* leaving the "with ThreadPoolExecutor(...)" block: shutdown(wait=True)
ExecutorShutdown == \A w \in Threads : wpc[w] \in {"done", "raised"}

\* BenchmarkResult(...) as run() builds it
BenchmarkResultKV(start, end) ==
    [ start_time |-> start, end_time |-> end, operation_times |-> operation_times,
      operation_types |-> operation_types, errors |-> errors ]

BenchmarkResultDS(start, end) ==
    [ start_time |-> start, end_time |-> end, operation_results |-> operation_results ]

\* self.prepare_data() and the warm-up loop, on self.client, before the
\* timed run; an exception there leaves run() before any worker exists
RunPrepare ==
    /\ run_pc = "created"
    /\ \/ run_pc' = "ready"
       \/ run_pc' = "aborted"
    /\ UNCHANGED <<monVars, earlier_result, config, now, start_time, end_time, submitted, collected,
                   operation_times, operation_types, errors, operation_results, result,
                   stats, workerVars>>

\* start_time = datetime.now()
RunStart ==
    /\ run_pc = "ready"
    /\ start_time' = now
    /\ now' = now + 1
    /\ run_pc' = "submitting"
    /\ UNCHANGED <<monVars, earlier_result, config, end_time, submitted, collected, operation_times,
                   operation_types, errors, operation_results, result, stats, workerVars>>

\* executor.submit(self._perform_operation, i) for i in range(num_threads)
RunSubmit ==
    /\ run_pc = "submitting"
    /\ submitted < config.num_threads
    /\ wpc' = [wpc EXCEPT ![submitted + 1] = "queued"]
    /\ submitted' = submitted + 1
    /\ run_pc' = IF submitted + 1 = config.num_threads THEN "collecting" ELSE "submitting"
    /\ UNCHANGED <<monVars, earlier_result, config, now, start_time, end_time, collected, operation_times,
                   operation_types, errors, operation_results, result, stats, localVars,
                   in_flight, round_trips, invocations>>

\* A BenchmarkResult holds the list objects it was built with, not copies:
\* a result built from self.operation_times / self.operation_types /
\* self.operation_results shows whatever these lists hold now (errors is an
\* int and was copied)
SameLists(res, times, types, results) ==
    IF res = NoResult THEN res
    ELSE IF "operation_results" \in DOMAIN res
         THEN [res EXCEPT !.operation_results = results]
         ELSE [res EXCEPT !.operation_times = times, !.operation_types = types]

\* for future in as_completed(futures): future.result() returns the
\* worker's lists, which extend self.* in place, or re-raises its exception
RunCollect(w) ==
    /\ run_pc = "collecting"
    /\ w \in Futures \ collected
    /\ wpc[w] \in {"done", "raised"}
    /\ IF wpc[w] = "done"
       THEN /\ collected' = collected \cup {w}
            /\ IF config.bench = "kv"
               THEN /\ operation_times' = operation_times \o local_times[w]
                    /\ operation_types' = operation_types \o local_op_types[w]
                    /\ errors' = errors + local_errors[w]
                    /\ UNCHANGED operation_results
               ELSE /\ operation_results' = operation_results \o local_results[w]
                    /\ UNCHANGED <<operation_times, operation_types, errors>>
            /\ earlier_result' = SameLists(earlier_result, operation_times',
                                           operation_types', operation_results')
            /\ UNCHANGED run_pc
       ELSE /\ run_pc' = "unwinding"
            /\ UNCHANGED <<collected, operation_times, operation_types, errors,
                           operation_results, earlier_result>>
    /\ UNCHANGED <<monVars, config, now, start_time, end_time, submitted, result, stats,
                   workerVars>>

\* the loop is over and the with-block is left; end_time = datetime.now();
\* result = BenchmarkResult(...)
RunJoin ==
    /\ run_pc = "collecting"
    /\ collected = Futures
    /\ ExecutorShutdown
    /\ end_time' = now
    /\ now' = now + 1
    /\ result' = IF config.bench = "kv" THEN BenchmarkResultKV(start_time, now)
                 ELSE BenchmarkResultDS(start_time, now)
    /\ run_pc' = "built"
    /\ UNCHANGED <<monVars, earlier_result, config, start_time, submitted, collected, operation_times,
                   operation_types, errors, operation_results, stats, workerVars>>

\* a worker's exception leaves the with-block (which first waits for every
\* worker) and then run()
RunUnwind ==
    /\ run_pc = "unwinding"
    /\ ExecutorShutdown
    /\ run_pc' = "raised"
    /\ UNCHANGED <<monVars, earlier_result, config, now, start_time, end_time, submitted, collected,
                   operation_times, operation_types, errors, operation_results, result,
                   stats, workerVars>>

\* self.cleanup_data() on self.client, then return result
RunCleanup ==
    /\ run_pc = "built"
    /\ \/ run_pc' = "returned"
       \/ run_pc' = "cleanup_raised"
    /\ UNCHANGED <<monVars, earlier_result, config, now, start_time, end_time, submitted, collected,
                   operation_times, operation_types, errors, operation_results, result,
                   stats, workerVars>>

\* --- main(): result.print_summary(), which calls self.calculate_stats()
calculate_stats(bench, res) ==
    IF bench = "kv" THEN calculate_stats_kv(res) ELSE calculate_stats_ds(res)

print_summary(bench, st) ==
    IF bench = "kv" THEN print_summary_kv(st) ELSE print_summary_ds(st)

MainPrintSummary ==
    /\ run_pc = "returned"
    /\ stats' = calculate_stats(config.bench, result)
    /\ run_pc' = IF print_summary(config.bench, stats') = "printed"
                 THEN "summarized" ELSE "crashed"
    /\ UNCHANGED <<monVars, earlier_result, config, now, start_time, end_time, submitted, collected,
                   operation_times, operation_types, errors, operation_results, result,
                   workerVars>>

\* main(): "if args.output: result.save_to_file(args.output)", whose to_dict()
\* calls self.calculate_stats() again and dumps whatever it returns
MainSaveToFile ==
    /\ run_pc = "summarized"
    /\ stats' = calculate_stats(config.bench, result)
    /\ run_pc' = "saved"
    /\ UNCHANGED <<monVars, earlier_result, config, now, start_time, end_time, submitted, collected,
                   operation_times, operation_types, errors, operation_results, result,
                   workerVars>>

Next ==
    \/ RunPrepare
    \/ RunStart
    \/ RunSubmit
    \/ \E w \in Workers : RunCollect(w)
    \/ RunJoin
    \/ RunUnwind
    \/ RunCleanup
    \/ MainPrintSummary
    \/ MainSaveToFile
    \/ \E w \in Workers : WorkerBegin(w)
    \/ \E w \in Workers : KVIssue(w)
    \/ \E w \in Workers : KVComplete(w)
    \/ \E w \in Workers : KVQueue(w)
    \/ \E w \in Workers : KVFlush(w)
    \/ \E w \in Workers : KVLoopEnd(w)
    \/ \E w \in Workers : KVTailFlush(w)
    \/ \E w \in Workers : DSIssue(w)
    \/ \E w \in Workers : DSComplete(w)
    \/ \E w \in Workers : DSLoopEnd(w)

Spec == Init /\ [][Next]_vars

\* run() called again on the same benchmark object after it has returned
\* (main() calls it once; a program that owns the object can call it again):
\* the locals of run() and a new pool of workers start afresh, the
\* attributes __init__ set (self.operation_times, self.operation_types,
\* self.errors, self.operation_results) are what the earlier run left
RunAgain ==
    /\ run_pc = "returned"
    /\ earlier_result = NoResult
    /\ earlier_result' = result
    /\ result' = NoResult
    /\ run_pc' = "created"
    /\ start_time' = Unset
    /\ end_time' = Unset
    /\ submitted' = 0
    /\ collected' = {}
    /\ wpc' = [w \in Workers |-> "unborn"]
    /\ i' = [w \in Workers |-> 0]
    /\ is_read' = [w \in Workers |-> FALSE]
    /\ ds_type' = [w \in Workers |-> "none"]
    /\ op_choice' = [w \in Workers |-> "none"]
    /\ elapsed' = [w \in Workers |-> 0]
    /\ local_times' = [w \in Workers |-> <<>>]
    /\ local_op_types' = [w \in Workers |-> <<>>]
    /\ local_errors' = [w \in Workers |-> 0]
    /\ pipe_count' = [w \in Workers |-> 0]
    /\ pipe_times' = [w \in Workers |-> <<>>]
    /\ pipe_op_types' = [w \in Workers |-> <<>>]
    /\ local_results' = [w \in Workers |-> <<>>]
    /\ in_flight' = [w \in Workers |-> NoClient]
    /\ round_trips' = [w \in Workers |-> 0]
    /\ invocations' = [w \in Workers |-> 0]
    /\ UNCHANGED <<monVars, config, now, operation_times, operation_types, errors,
                   operation_results, stats>>

NextRerun ==
    \/ Next
    \/ RunAgain

\* the objects run() is called on twice: the single-threaded configurations
\* of up to MaxRerunOps operations
MaxRerunOps == 2

InitRerun ==
    /\ Init
    /\ config.num_threads = 1
    /\ config.operations_per_thread <= MaxRerunOps

SpecRerun == InitRerun /\ [][NextRerun]_vars

TypeOK ==
    /\ config \in Configs
    /\ submitted \in 0 .. config.num_threads
    /\ collected \subseteq Threads
    /\ \A w \in Workers : i[w] \in 0 .. config.operations_per_thread

\* ------------------------------------------------- summarising a result
\* The aggregation as a function of the result it is given: the run has
\* returned with one worker's output, and the output is drawn from a family
\* of sample sequences (length, stride, offset, failure period).
MaxSamples   == 20
MaxSpread    == 5
MaxFailEvery == 3

GenDuration(j, a, b) == TimeUnit * (1 + ((a * j + b) % MaxSpread))

GenFails(j, f) == f > 0 /\ j % f = 0

GenIsRead(j, b) == (j + b) % 2 = 0

GenResults(n, a, b, f) ==
    [ j \in 1 .. n |->
        IF GenFails(j, f)
        THEN FailureResult(IF GenIsRead(j, b) THEN "GET" ELSE "SET", "string")
        ELSE SuccessResult(IF GenIsRead(j, b) THEN "GET" ELSE "SET", "string",
                           GenDuration(j, a, b)) ]

GenTimes(n, a, b, f) ==
    SelectIdx([ j \in 1 .. n |-> GenDuration(j, a, b) ], { j \in 1 .. n : ~GenFails(j, f) })

GenTypes(n, a, b, f) ==
    SelectIdx([ j \in 1 .. n |-> IF GenIsRead(j, b) THEN "GET" ELSE "SET" ],
              { j \in 1 .. n : ~GenFails(j, f) })

GenErrors(n, f) == Cardinality({ j \in 1 .. n : GenFails(j, f) })

FirstOnly(x, rest) == [w \in Workers |-> IF w = 1 THEN x ELSE rest]

InitStats ==
    \E b \in {"kv", "ds"}, n \in 0 .. MaxSamples, a \in 0 .. MaxSpread - 1,
       c \in 0 .. MaxSpread - 1, f \in 0 .. MaxFailEvery :
       /\ config = [ bench |-> b,
                     data_structure |-> IF b = "ds" THEN "string" ELSE "none",
                     num_threads |-> 1, operations_per_thread |-> n,
                     pipeline_size |-> 0, read_write_ratio |-> 1 ]
       /\ run_pc = "returned"
       /\ start_time = 0
       /\ end_time = 1
       /\ now = 2
       /\ submitted = 1
       /\ collected = {1}
       /\ operation_times = (IF b = "kv" THEN GenTimes(n, a, c, f) ELSE <<>>)
       /\ operation_types = (IF b = "kv" THEN GenTypes(n, a, c, f) ELSE <<>>)
       /\ errors = (IF b = "kv" THEN GenErrors(n, f) ELSE 0)
       /\ operation_results = (IF b = "ds" THEN GenResults(n, a, c, f) ELSE <<>>)
       /\ result = (IF b = "kv" THEN BenchmarkResultKV(0, 1) ELSE BenchmarkResultDS(0, 1))
       /\ earlier_result = NoResult
       /\ stats = NoStats
       /\ wpc = FirstOnly("done", "unborn")
       /\ i = FirstOnly(n, 0)
       /\ is_read = FirstOnly(n > 0 /\ GenIsRead(n, c), FALSE)
       /\ ds_type = FirstOnly(IF b = "ds" /\ n > 0 THEN "string" ELSE "none", "none")
       /\ op_choice = FirstOnly(IF b = "ds" /\ n > 0
                                THEN (IF GenIsRead(n, c) THEN "GET" ELSE "SET")
                                ELSE "none", "none")
       /\ elapsed = FirstOnly(IF GenTimes(n, a, c, f) = <<>> THEN 0
                              ELSE GenTimes(n, a, c, f)[Len(GenTimes(n, a, c, f))], 0)
       /\ local_times = FirstOnly(operation_times, <<>>)
       /\ local_op_types = FirstOnly(operation_types, <<>>)
       /\ local_errors = FirstOnly(errors, 0)
       /\ pipe_count = FirstOnly(0, 0)
       /\ pipe_times = FirstOnly(<<>>, <<>>)
       /\ pipe_op_types = FirstOnly(<<>>, <<>>)
       /\ local_results = FirstOnly(operation_results, <<>>)
       /\ in_flight = FirstOnly(NoClient, NoClient)
       /\ round_trips = FirstOnly(n, 0)
       /\ invocations = FirstOnly(1, 0)
       /\ InitMonitor

NextStats ==
    \/ MainPrintSummary
    \/ MainSaveToFile

SpecStats == InitStats /\ [][NextStats]_vars

\* ------------------------------------------------- monitor: the report
\* A timestamp is a reading of the utc clock (utcnow().isoformat(), which
\* fromisoformat reads back unchanged), so it is never negative; the end of
\* a disconnection that is still open is the string the code writes instead
\* of a timestamp, and the duration printed for it is another fixed string.
SessionEnd == 0 - 1

UnknownDuration == 0 - 1

NoDisconnection == [open |-> FALSE, start |-> 0]

\* line 443: a disconnected sample while no disconnection is open
StartsAtEveryDisconnectedSample(status, current) == ~status.connected

OpensDisconnection(status, current) == ~status.connected /\ ~current.open

\* line 449: a connected sample while a disconnection is open
ClosesAtEverySample(status, current) == current.open

ClosesDisconnection(status, current) == status.connected /\ current.open

PrependDisconnection(disconnections, d) == <<d>> \o disconnections

\* line 452: disconnections.append(current_disconnection)
AppendDisconnection(disconnections, d) == Append(disconnections, d)

\* lines 442-453: disconnections and current_disconnection after the loop
\* has seen the first k samples
ScanStatus(cs) ==
    LET F[k \in 0 .. Len(cs)] ==
          IF k = 0 THEN [disconnections |-> <<>>, current |-> NoDisconnection]
          ELSE LET p == F[k - 1]
                   status == cs[k]
               IN  IF OpensDisconnection(status, p.current)
                   THEN [ disconnections |-> p.disconnections,
                          current |-> [open |-> TRUE, start |-> status.timestamp] ]
                   ELSE IF ClosesDisconnection(status, p.current)
                   THEN [ disconnections |->
                             AppendDisconnection(p.disconnections,
                                    [start |-> p.current.start, end |-> status.timestamp]),
                          current |-> NoDisconnection ]
                   ELSE p
    IN  F[Len(cs)]

DropOpenDisconnection(scan) == scan.disconnections

\* lines 456-458: a disconnection still open after the loop gets the
\* session-end string as its end
CloseAtSessionEnd(scan) ==
    IF scan.current.open
    THEN AppendDisconnection(scan.disconnections,
                             [start |-> scan.current.start, end |-> SessionEnd])
    ELSE scan.disconnections

Disconnections(cs) == CloseAtSessionEnd(ScanStatus(cs))

\* lines 504-514: one row of the table of disconnection events
TableRow(d) ==
    IF d.end = SessionEnd
    THEN [start |-> d.start, end |-> d.end, duration |-> UnknownDuration]
    ELSE [start |-> d.start, end |-> d.end, duration |-> d.end - d.start]

RECURSIVE MaxOf(_, _)
MaxOf(s, default) ==
    IF s = <<>> THEN default
    ELSE LET m == MaxOf(Tail(s), Head(s)) IN IF Head(s) >= m THEN Head(s) ELSE m

\* lines 540-542: max([end - start for d in disconnections if d['end'] is
\* not the session-end string], default=timedelta(0))
MaxDuration(disconnections) ==
    LET closed == SelectIdx(disconnections,
                            { j \in 1 .. Len(disconnections) :
                                 disconnections[j].end # SessionEnd })
    IN  MaxOf([ j \in 1 .. Len(closed) |-> closed[j].end - closed[j].start ], 0)

\* lines 492-516: the section on the connection state
ConnectionSection(cs, disconnections) ==
    LET connected_count == Cardinality({ j \in 1 .. Len(cs) : cs[j].connected })
    IN  [ total        |-> Len(cs),
          connected    |-> connected_count,
          disconnected |-> Len(cs) - connected_count,
          events       |-> IF disconnections # <<>>
                           THEN [ j \in 1 .. Len(disconnections) |-> TableRow(disconnections[j]) ]
                           ELSE <<>>,
          no_events_line |-> disconnections = <<>> ]

\* lines 537-545: the first part of the conclusion
Conclusion(cs, disconnections) ==
    LET disconnected_count == Cardinality({ j \in 1 .. Len(cs) : ~cs[j].connected })
    IN  IF disconnected_count > 0
        THEN [ detected |-> TRUE, count |-> Len(disconnections),
               longest  |-> IF Len(disconnections) > 0
                            THEN <<MaxDuration(disconnections)>> ELSE <<>> ]
        ELSE [ detected |-> FALSE, count |-> 0, longest |-> <<>> ]

\* statistics.mean of a half; it raises StatisticsError on an empty list
Mean(times) ==
    IF times = <<>> THEN [raised |-> "StatisticsError", num |-> 0, den |-> 1]
    ELSE [raised |-> "no", num |-> SumSeq(times), den |-> Len(times)]

\* second - first of two means, exact
Change(second, first) ==
    Ratio(second.num * first.den - first.num * second.den, second.den * first.den)

Abs(x) == IF x < 0 THEN 0 - x ELSE x

\* abs(change) < 1.0, latencies being in milliseconds
BelowNoise(change) == Abs(change.num) < 1 * change.den

\* lines 566-574: the line written for one of the two changes
ChangeLine(change) ==
    [ direction |-> IF change.num > 0 THEN "increase" ELSE "decrease",
      amount    |-> Ratio(Abs(change.num), change.den) ]

AlwaysCompared(latencies) == TRUE

\* line 548: if len(self.latency_metrics) > 10
EnoughToCompare(latencies) == Len(latencies) > 10

\* lines 547-574: the analysis of the change of latency
DriftSection(lm) ==
    LET mid_point    == Len(lm) \div 2
        reads        == [ j \in 1 .. Len(lm) |-> lm[j].read_latency ]
        writes       == [ j \in 1 .. Len(lm) |-> lm[j].write_latency ]
        first_read   == Mean(SubSeq(reads, 1, mid_point))
        second_read  == Mean(SubSeq(reads, mid_point + 1, Len(lm)))
        first_write  == Mean(SubSeq(writes, 1, mid_point))
        second_write == Mean(SubSeq(writes, mid_point + 1, Len(lm)))
        read_change  == Change(second_read, first_read)
        write_change == Change(second_write, first_write)
    IN  IF ~EnoughToCompare(lm) THEN [kind |-> "omitted"]
        ELSE IF first_read.raised # "no" \/ second_read.raised # "no"
        THEN [kind |-> "StatisticsError"]
        ELSE IF BelowNoise(read_change) /\ BelowNoise(write_change)
        THEN [kind |-> "no_significant_change",
              read_change |-> read_change, write_change |-> write_change]
        ELSE [kind |-> "changes",
              read_change |-> read_change, write_change |-> write_change,
              read |-> ChangeLine(read_change), write |-> ChangeLine(write_change)]

\* lines 464-480: read_stats / write_stats
MonitorLatencyStats(times) ==
    [ min    |-> IF times # <<>> THEN sorted(times)[1] ELSE 0,
      max    |-> IF times # <<>> THEN sorted(times)[Len(times)] ELSE 0,
      avg    |-> IF times # <<>> THEN Ratio(SumSeq(times), Len(times)) ELSE Ratio(0, 1),
      median |-> IF times # <<>> THEN Median(times) ELSE Ratio(0, 1),
      p95    |-> IF Len(times) > 20 THEN Percentile(times, 95) ELSE 0,
      p99    |-> IF Len(times) > 100 THEN Percentile(times, 99) ELSE 0 ]

\* generate_report: the interval list it computes and what it writes; with
\* no connectivity sample the percentage of line 495 divides by zero after
\* the heading has been written
generate_report(cs, lm) ==
    LET disconnections == Disconnections(cs)
        drift == DriftSection(lm)
    IN  IF Len(cs) = 0
        THEN [outcome |-> "ZeroDivisionError", disconnections |-> disconnections]
        ELSE IF drift.kind = "StatisticsError"
        THEN [outcome |-> "StatisticsError", disconnections |-> disconnections]
        ELSE [ outcome        |-> "written",
               disconnections |-> disconnections,
               connection     |-> ConnectionSection(cs, disconnections),
               read_stats     |-> MonitorLatencyStats(
                                     [ j \in 1 .. Len(lm) |-> lm[j].read_latency ]),
               write_stats    |-> MonitorLatencyStats(
                                     [ j \in 1 .. Len(lm) |-> lm[j].write_latency ]),
               conclusion     |-> Conclusion(cs, disconnections),
               drift          |-> drift ]

\* save_results: the three logs are dumped, then self.generate_report(...)
SaveResults ==
    /\ mon_pc = "stopped"
    /\ report' = generate_report(connection_status, latency_metrics)
    /\ mon_pc' = IF report'.outcome = "written" THEN "saved" ELSE "save_raised"
    /\ UNCHANGED <<benchVars, running, utc, connection_status, latency_metrics,
                   metrics_queue, probeVars, status_pc, cw_pc, cloudwatch_metrics, cw_polls>>

\* ------------------------------------------------- monitor: the loops
\* The daemon threads of start_monitoring and the thread of main(),
\* interleaved at every blocking call (a network round trip, a sleep, a
\* queue get, a join).  MaxTicks and MaxPolls cap the number of probe ticks
\* and of metrics polls of a session.
MaxTicks == 2
MaxPolls == 1

\* the latencies a timed write or read of the model measures, in milliseconds
ProbeLatencies == {1}

\* signal_handler ends with sys.exit(0), main() returns after save_results,
\* and an exception of save_results ends main(): the daemon threads die with
\* the process
ProcessAlive == mon_pc \notin {"saved", "save_raised"}

LoopIgnoresFlag(flag) == TRUE

\* "while self.running:" at the head of each of the three loops
LoopContinues(flag) == flag

StopsAfterFailedTick(ok) == IF ok THEN "sleep" ELSE "exited"

\* after a tick, connected or not, the probe loop sleeps test_interval and
\* goes back to its loop head
AfterTick(ok) == "sleep"

PutWaitsForConsumer(q) == Len(q) >= 1

\* self.metrics_queue = queue.Queue() has no maxsize: put() never waits
PutWouldBlock(q) == FALSE

\* the three Thread(...).start() of start_monitoring, for its g-th call
StartThreads(g) ==
    /\ cw_pc' = [cw_pc EXCEPT ![g] = "started"]
    /\ probe_pc' = [probe_pc EXCEPT ![g] = "started"]
    /\ status_pc' = [status_pc EXCEPT ![g] = "started"]

\* start_monitoring: returns at once when already running; otherwise sets
\* the flag and starts the three threads
StartMonitoring ==
    /\ mon_pc = "constructed"
    /\ ~running
    /\ running' = TRUE
    /\ StartThreads(1)
    /\ mon_pc' = "monitoring"
    /\ UNCHANGED <<benchVars, utc, connection_status, latency_metrics, metrics_queue,
                   connected, read_latency, write_latency, cloudwatch_metrics, cw_polls, report>>

\* _run_connection_tests: "while self.running", after the sleep of the
\* previous tick; entering _test_connection resets its three locals
ProbeLoopTest(g) ==
    /\ ProcessAlive
    /\ probe_pc[g] \in {"started", "sleep"}
    /\ Len(connection_status) < MaxTicks \/ ~LoopContinues(running)
    /\ IF LoopContinues(running)
       THEN /\ probe_pc' = [probe_pc EXCEPT ![g] = "ping"]
            /\ connected' = [connected EXCEPT ![g] = FALSE]
            /\ read_latency' = [read_latency EXCEPT ![g] = 0]
            /\ write_latency' = [write_latency EXCEPT ![g] = 0]
       ELSE /\ probe_pc' = [probe_pc EXCEPT ![g] = "exited"]
            /\ UNCHANGED <<connected, read_latency, write_latency>>
    /\ UNCHANGED <<benchVars, mon_pc, running, utc, connection_status, latency_metrics,
                   metrics_queue, status_pc, cw_pc, cloudwatch_metrics, cw_polls, report>>

\* self.client.ping() returns (connected = True) or raises (except
\* Exception: connected = False)
ProbePing(g) ==
    /\ ProcessAlive
    /\ probe_pc[g] = "ping"
    /\ \/ /\ connected' = [connected EXCEPT ![g] = TRUE]
          /\ probe_pc' = [probe_pc EXCEPT ![g] = "set"]
       \/ /\ connected' = [connected EXCEPT ![g] = FALSE]
          /\ probe_pc' = [probe_pc EXCEPT ![g] = "record"]
    /\ UNCHANGED <<benchVars, mon_pc, running, utc, connection_status, latency_metrics,
                   metrics_queue, read_latency, write_latency, status_pc, cw_pc,
                   cloudwatch_metrics, cw_polls, report>>

\* self.client.set(key, value) returns and write_latency is measured, or
\* raises
ProbeSet(g) ==
    /\ ProcessAlive
    /\ probe_pc[g] = "set"
    /\ \/ \E w \in ProbeLatencies :
            /\ write_latency' = [write_latency EXCEPT ![g] = w]
            /\ probe_pc' = [probe_pc EXCEPT ![g] = "get"]
            /\ UNCHANGED connected
       \/ /\ connected' = [connected EXCEPT ![g] = FALSE]
          /\ probe_pc' = [probe_pc EXCEPT ![g] = "record"]
          /\ UNCHANGED write_latency
    /\ UNCHANGED <<benchVars, mon_pc, running, utc, connection_status, latency_metrics,
                   metrics_queue, read_latency, status_pc, cw_pc, cloudwatch_metrics,
                   cw_polls, report>>

\* self.client.get(key) returns and read_latency is measured, or raises
ProbeGet(g) ==
    /\ ProcessAlive
    /\ probe_pc[g] = "get"
    /\ \/ \E r \in ProbeLatencies :
            /\ read_latency' = [read_latency EXCEPT ![g] = r]
            /\ UNCHANGED connected
       \/ /\ connected' = [connected EXCEPT ![g] = FALSE]
          /\ UNCHANGED read_latency
    /\ probe_pc' = [probe_pc EXCEPT ![g] = "record"]
    /\ UNCHANGED <<benchVars, mon_pc, running, utc, connection_status, latency_metrics,
                   metrics_queue, write_latency, status_pc, cw_pc, cloudwatch_metrics,
                   cw_polls, report>>

\* the item _run_connection_tests puts on the queue
LatencyItem(g, timestamp) ==
    [ type |-> "latency", timestamp |-> timestamp, connected |-> connected[g],
      read_latency |-> read_latency[g], write_latency |-> write_latency[g] ]

\* lines 287-315: the tick is stamped and recorded, then the thread sleeps.
\* _test_connection catches every Exception itself and the appends and the
\* put on the unbounded queue do not raise, so the except branch of lines
\* 317-326 (which records a disconnected sample, sleeps and loops as well)
\* is never entered.
ProbeRecord(g) ==
    /\ ProcessAlive
    /\ probe_pc[g] = "record"
    /\ ~PutWouldBlock(metrics_queue)
    /\ utc' = utc + 1
    /\ connection_status' = Append(connection_status,
                                   [timestamp |-> utc, connected |-> connected[g]])
    /\ latency_metrics' = IF connected[g]
                          THEN Append(latency_metrics,
                                      [ timestamp |-> utc, read_latency |-> read_latency[g],
                                        write_latency |-> write_latency[g] ])
                          ELSE latency_metrics
    /\ metrics_queue' = Append(metrics_queue, LatencyItem(g, utc))
    /\ probe_pc' = [probe_pc EXCEPT ![g] = AfterTick(connected[g])]
    /\ UNCHANGED <<benchVars, mon_pc, running, connected, read_latency, write_latency,
                   status_pc, cw_pc, cloudwatch_metrics, cw_polls, report>>

\* _get_cloudwatch_metrics: metric_names, in the order they are fetched
metric_names ==
    << "CurrConnections", "NewConnections", "BytesUsedForCache", "CacheHits",
       "CacheMisses", "CPUUtilization", "NetworkBytesIn", "NetworkBytesOut",
       "EngineCPUUtilization", "ReplicationLag", "CommandLatency" >>

\* the gauges a poll of the model obtains (a gauge whose fetch raises, or
\* that has no value, is skipped): none of them or all of them
GaugeOutcomes ==
    { {}, 1 .. Len(metric_names) }

\* the list _get_cloudwatch_metrics returns, each entry stamped by its own
\* reading of the clock after the one that sets end_time
FetchedMetrics(got, clock) ==
    LET names == SelectIdx(metric_names, got)
    IN  [ k \in 1 .. Len(names) |-> [timestamp |-> clock + k, metric_name |-> names[k]] ]

\* _monitor_cloudwatch: "while self.running", after the sleep of the
\* previous poll
CwLoopTest(g) ==
    /\ ProcessAlive
    /\ cw_pc[g] \in {"started", "sleep"}
    /\ cw_polls < MaxPolls \/ ~LoopContinues(running)
    /\ cw_pc' = [cw_pc EXCEPT ![g] = IF LoopContinues(running) THEN "poll" ELSE "exited"]
    /\ UNCHANGED <<benchVars, mon_pc, running, utc, connection_status, latency_metrics,
                   metrics_queue, probeVars, status_pc, cloudwatch_metrics, cw_polls, report>>

\* lines 264-275: the gauges are fetched, appended to the log and put on
\* the queue, then the thread sleeps
CwPoll(g) ==
    /\ ProcessAlive
    /\ cw_pc[g] = "poll"
    /\ ~PutWouldBlock(metrics_queue)
    /\ \E got \in GaugeOutcomes :
          LET metrics == FetchedMetrics(got, utc)
          IN  /\ cloudwatch_metrics' = cloudwatch_metrics \o metrics
              /\ metrics_queue' = Append(metrics_queue,
                                         [ type |-> "cloudwatch",
                                           timestamp |-> utc + Len(metrics) + 1 ])
              /\ utc' = utc + Len(metrics) + 2
    /\ cw_polls' = cw_polls + 1
    /\ cw_pc' = [cw_pc EXCEPT ![g] = "sleep"]
    /\ UNCHANGED <<benchVars, mon_pc, running, connection_status, latency_metrics,
                   probeVars, status_pc, report>>

\* _print_status_update: "while self.running", after the sleep of 0.1 s
StatusLoopTest(g) ==
    /\ ProcessAlive
    /\ status_pc[g] \in {"started", "sleep"}
    /\ status_pc' = [status_pc EXCEPT
                       ![g] = IF LoopContinues(running) THEN "get" ELSE "exited"]
    /\ UNCHANGED <<benchVars, mon_pc, running, utc, connection_status, latency_metrics,
                   metrics_queue, probeVars, cw_pc, cloudwatch_metrics, cw_polls, report>>

\* self.metrics_queue.get(timeout=1.0): the oldest item is taken (and
\* printed when a second has passed since the last line), or the queue is
\* empty and the get times out
StatusGet(g) ==
    /\ ProcessAlive
    /\ status_pc[g] = "get"
    /\ metrics_queue' = IF metrics_queue # <<>> THEN Tail(metrics_queue) ELSE metrics_queue
    /\ status_pc' = [status_pc EXCEPT ![g] = "sleep"]
    /\ UNCHANGED <<benchVars, mon_pc, running, utc, connection_status, latency_metrics,
                   probeVars, cw_pc, cloudwatch_metrics, cw_polls, report>>

\* Ctrl+C: stop_monitoring clears the flag ...
StopMonitoring ==
    /\ mon_pc = "monitoring"
    /\ running
    /\ running' = FALSE
    /\ mon_pc' = "joining"
    /\ UNCHANGED <<benchVars, utc, connection_status, latency_metrics, metrics_queue,
                   probeVars, status_pc, cw_pc, cloudwatch_metrics, cw_polls, report>>

\* the positions at which a thread can wait longer than the 2.0 s of a join:
\* a command on the socket (socket_timeout=5.0, retried on timeout), a
\* CloudWatch call, a sleep of test_interval or monitoring_interval seconds
OutlastsJoin == {"ping", "set", "get", "poll", "sleep"}

\* self.monitoring_thread, self.test_thread and self.status_thread are the
\* threads of the latest start_monitoring call that started threads
LatestStart ==
    CHOOSE g \in Starts :
       probe_pc[g] # "unborn" /\ (g = MaxStarts \/ probe_pc[g + 1] = "unborn")

\* ... and joins each of these threads with timeout=2.0: a join returns
\* when its thread has exited or when the timeout has passed, whichever
\* comes first.  The status printer waits 1.0 s and 0.1 s at most and has
\* exited by then.
JoinThreads ==
    /\ mon_pc = "joining"
    /\ cw_pc[LatestStart] \in OutlastsJoin \cup {"exited"}
    /\ probe_pc[LatestStart] \in OutlastsJoin \cup {"exited"}
    /\ status_pc[LatestStart] = "exited"
    /\ mon_pc' = "stopped"
    /\ UNCHANGED <<benchVars, running, utc, connection_status, latency_metrics,
                   metrics_queue, probeVars, status_pc, cw_pc, cloudwatch_metrics,
                   cw_polls, report>>

\* the steps of the thread running _run_connection_tests,
\* _monitor_cloudwatch and _print_status_update
ProbeStep(g) ==
    ProbeLoopTest(g) \/ ProbePing(g) \/ ProbeSet(g) \/ ProbeGet(g) \/ ProbeRecord(g)

CwStep(g) == CwLoopTest(g) \/ CwPoll(g)

StatusStep(g) == StatusLoopTest(g) \/ StatusGet(g)

\* ---------------------------------------------- analysing a sample log
\* The analysis as a function of the logs it is given: monitoring has been
\* stopped and the probe loop has left two logs behind.  The connectivity
\* log is drawn from the sequences of up to seven alternating runs
\* (connected first, a run may be empty), the latency log from the
\* sequences with one level up to a change point and another after it.
MaxRun            == 3
MaxLatencySamples == 12
MaxLatency        == 3

RunLengths == [1 .. 7 -> 0 .. MaxRun]

PrefixSum(runs, r) == SumSeq(SubSeq(runs, 1, r))

RunOf(runs, j) == CHOOSE r \in 1 .. 7 : PrefixSum(runs, r - 1) < j /\ j <= PrefixSum(runs, r)

GenConnected(runs) == [ j \in 1 .. PrefixSum(runs, 7) |-> RunOf(runs, j) % 2 = 1 ]

\* what the probe loop appends: one connectivity sample per tick, stamped
\* by the clock, and one latency sample per connected tick
GenStatus(conn) == [ j \in 1 .. Len(conn) |-> [timestamp |-> j - 1, connected |-> conn[j]] ]

GenLatencyMetrics(conn, s, r1, r2, w1, w2) ==
    LET ticks == SelectIdx(GenStatus(conn), { j \in 1 .. Len(conn) : conn[j] })
    IN  [ k \in 1 .. Len(ticks) |->
            [ timestamp     |-> ticks[k].timestamp,
              read_latency  |-> IF k <= s THEN r1 ELSE r2,
              write_latency |-> IF k <= s THEN w1 ELSE w2 ] ]

\* the benchmark objects do not exist in the monitor's process
BenchmarkNotRun ==
    /\ config = [ bench |-> "none", data_structure |-> "none", num_threads |-> 1,
                  operations_per_thread |-> 0, pipeline_size |-> 0, read_write_ratio |-> 0 ]
    /\ now = 0
    /\ InitRun
    /\ InitWorkers

NextMonitor ==
    \/ StartMonitoring
    \/ \E g \in Starts : ProbeLoopTest(g)
    \/ \E g \in Starts : ProbePing(g)
    \/ \E g \in Starts : ProbeSet(g)
    \/ \E g \in Starts : ProbeGet(g)
    \/ \E g \in Starts : ProbeRecord(g)
    \/ \E g \in Starts : CwLoopTest(g)
    \/ \E g \in Starts : CwPoll(g)
    \/ \E g \in Starts : StatusLoopTest(g)
    \/ \E g \in Starts : StatusGet(g)
    \/ StopMonitoring
    \/ JoinThreads
    \/ SaveResults

InitMonitorSession == BenchmarkNotRun /\ InitMonitor

SpecMonitor == InitMonitorSession /\ [][NextMonitor]_vars

\* start_monitoring called again on the same monitor after stop_monitoring
\* has returned (main() does not do this; a program that owns the object
\* can): the flag is clear, so it is set and three new threads are started,
\* whatever the threads of the earlier call are doing.  Called while the
\* flag is set, start_monitoring returns at once and changes nothing.
StartMonitoringAgain ==
    /\ mon_pc = "stopped"
    /\ ~running
    /\ \E g \in Starts \ {1} :
          /\ probe_pc[g] = "unborn"
          /\ probe_pc[g - 1] # "unborn"
          /\ StartThreads(g)
    /\ running' = TRUE
    /\ mon_pc' = "monitoring"
    /\ UNCHANGED <<benchVars, utc, connection_status, latency_metrics, metrics_queue,
                   connected, read_latency, write_latency, cloudwatch_metrics, cw_polls, report>>

NextCalls ==
    \/ NextMonitor
    \/ StartMonitoringAgain

\* the monitor driven through its public methods, in any order
SpecMonitorCalls == InitMonitorSession /\ [][NextCalls]_vars

\* The three loops are threads of their own: the scheduler keeps running
\* each of them, and each of their blocking calls returns (the socket
\* timeouts of the client, the sleeps, queue.get(timeout=1.0)).  Nothing
\* is assumed of main(): Ctrl+C may never come.
FairThreads ==
    \A g \in Starts :
       WF_vars(ProbeStep(g)) /\ WF_vars(CwStep(g)) /\ WF_vars(StatusStep(g))

SpecMonitorFair == InitMonitorSession /\ [][NextMonitor]_vars /\ FairThreads

StoppedWith(conn, s, r1, r2, w1, w2) ==
    /\ mon_pc = "stopped"
    /\ running = FALSE
    /\ utc = Len(conn)
    /\ connection_status = GenStatus(conn)
    /\ latency_metrics = GenLatencyMetrics(conn, s, r1, r2, w1, w2)
    /\ metrics_queue = <<>>
    /\ probe_pc = [g \in Starts |-> IF g = 1 THEN "exited" ELSE "unborn"]
    /\ connected = [g \in Starts |-> g = 1 /\ conn # <<>> /\ conn[Len(conn)]]
    /\ read_latency = [g \in Starts |->
                          IF connected[g] THEN latency_metrics[Len(latency_metrics)].read_latency
                          ELSE 0]
    /\ write_latency = [g \in Starts |->
                           IF connected[g] THEN latency_metrics[Len(latency_metrics)].write_latency
                           ELSE 0]
    /\ status_pc = [g \in Starts |-> IF g = 1 THEN "exited" ELSE "unborn"]
    /\ cw_pc = [g \in Starts |-> IF g = 1 THEN "exited" ELSE "unborn"]
    /\ cloudwatch_metrics = <<>>
    /\ cw_polls = 0
    /\ report = NoReport

InitReport ==
    /\ BenchmarkNotRun
    /\ \/ \E runs \in RunLengths : StoppedWith(GenConnected(runs), 0, 1, 1, 1, 1)
       \/ \E n \in 0 .. MaxLatencySamples, s \in 0 .. MaxLatencySamples,
             r1 \in 1 .. MaxLatency, r2 \in 1 .. MaxLatency,
             w1 \in 1 .. MaxLatency, w2 \in 1 .. MaxLatency :
             s <= n /\ StoppedWith(Repeat(TRUE, n), s, r1, r2, w1, w2)

NextReport == SaveResults

SpecReport == InitReport /\ [][NextReport]_vars

\* ----------------------------------------------------------------- claims
CeilDiv(a, b) == (a + b - 1) \div b

SuccessfulTimes(res) ==
    IF config.bench = "kv" THEN res.operation_times
    ELSE DurationsWhere(res, Successful(res))

\* C1: in the data-structure benchmark every worker returns exactly
\* operations_per_thread records, whatever fails, and the counts of the
\* finished run add up: successful + errors = total = num_threads *
\* operations_per_thread, the errors being the records with success = false.
C1_DSCountsAddUp ==
    config.bench = "ds" =>
      /\ \A w \in Threads :
            wpc[w] = "done" => Len(local_results[w]) = config.operations_per_thread
      /\ result # NoResult =>
            /\ total_operations(result)
                 = config.num_threads * config.operations_per_thread
            /\ successful_operations(result) + errors_of(result) = total_operations(result)
            /\ errors_of(result)
                 = Cardinality({ j \in 1 .. Len(result.operation_results) :
                                   ~result.operation_results[j].success })
      /\ "total_operations" \in DOMAIN stats =>
            /\ stats.total_operations = config.num_threads * config.operations_per_thread
            /\ stats.successful_operations + stats.errors = stats.total_operations

C1_Witness ==
    /\ config.bench = "ds"
    /\ run_pc = "summarized"
    /\ config.num_threads = 2
    /\ config.operations_per_thread = 2
    /\ stats.errors = 1
    /\ stats.successful_operations = 3

\* C2: in the simple key-value benchmark, after run() the number of latency
\* samples plus the error count equals num_threads * operations_per_thread.
C2_KVSamplesPlusErrorsIsIssued ==
    (config.bench = "kv" /\ result # NoResult) =>
       Len(result.operation_times) + result.errors
         = config.num_threads * config.operations_per_thread

\* C3: at no point of the timed run is one client connection carrying the
\* commands of two different workers (each worker uses a client of its own).
C3_NoClientSharedByWorkers ==
    \A w1 \in Workers, w2 \in Workers :
       (w1 # w2 /\ in_flight[w1] # NoClient) => in_flight[w1] # in_flight[w2]

\* C4: a failing operation or batch flush, the remainder flush included, never
\* leaves the worker as an exception, and run() never raises because of one.
C4_FailuresNeverEscape ==
    /\ \A w \in Workers : wpc[w] # "raised"
    /\ run_pc \notin {"unwinding", "raised"}

\* C5: a flush that succeeds on a batch of k buffered operations with measured
\* batch time T appends exactly k latency entries, each equal to T / k, for a
\* full batch and for the remainder batch alike.
C5_FlushSharesBatchTimeEqually ==
    [][ \A w \in Workers :
          ( /\ wpc[w] \in {"flush", "tailflush"}
            /\ wpc'[w] \in {"loop", "done"}
            /\ local_errors'[w] = local_errors[w] )
          => LET k == Len(pipe_op_types[w]) - Len(pipe_times[w])
                 T == elapsed'[w]
             IN  /\ k >= 1
                 /\ Len(pipe_times'[w]) = Len(pipe_times[w]) + k
                 /\ SubSeq(pipe_times'[w], 1, Len(pipe_times[w])) = pipe_times[w]
                 /\ \A j \in Len(pipe_times[w]) + 1 .. Len(pipe_times'[w]) :
                       pipe_times'[w][j] * k = T ]_vars

C5_Witness ==
    \E w \in Workers :
       /\ config.bench = "kv"
       /\ config.pipeline_size = 2
       /\ wpc[w] = "loop"
       /\ pipe_count[w] = 0
       /\ Len(pipe_times[w]) = 2
       /\ pipe_times[w][1] = pipe_times[w][2]
       /\ pipe_times[w][1] * 2 = elapsed[w]

\* C6: in the data-structure benchmark with pipeline_size = k > 0 a worker
\* that has finished has made ceil(operations_per_thread / k) round trips.
C6_DSPipelineBatchesRoundTrips ==
    (config.bench = "ds" /\ config.pipeline_size > 0) =>
       \A w \in Threads :
          wpc[w] = "done" =>
             round_trips[w] = CeilDiv(config.operations_per_thread, config.pipeline_size)

\* C7: run() starts exactly num_threads workers, each once; as long as
\* start_time is not read no worker has begun, once end_time is read every
\* worker has finished and end_time is later than start_time; a result is
\* built only from the output of all the workers.
C7_RunJoinsAllWorkers ==
    /\ \A w \in Workers : invocations[w] <= 1
    /\ start_time = Unset => \A w \in Workers : wpc[w] = "unborn" /\ invocations[w] = 0
    /\ end_time # Unset =>
          /\ start_time # Unset /\ start_time < end_time
          /\ \A w \in Threads : wpc[w] = "done"
    /\ result # NoResult =>
          /\ \A w \in Workers : invocations[w] = (IF w \in Threads THEN 1 ELSE 0)
          /\ collected = Threads
          /\ IF config.bench = "kv"
             THEN /\ Len(result.operation_times)
                       = SumSeq([w \in Workers |-> Len(local_times[w])])
                  /\ result.errors = SumSeq([w \in Workers |-> local_errors[w]])
             ELSE Len(result.operation_results)
                    = SumSeq([w \in Workers |-> Len(local_results[w])])

C7_Witness ==
    /\ run_pc = "returned"
    /\ config.num_threads = 2
    /\ config.operations_per_thread = 2
    /\ \A w \in Threads : Len(local_results[w]) + Len(local_times[w]) + local_errors[w] = 2
    /\ end_time > start_time

\* C8: the reported p95 and p99 are the elements at index floor(0.95 n) and
\* floor(0.99 n) of the ascending order of the n successful durations, the
\* indices lie in 0 .. n-1, and for n = 20 the p95 index is 19: the maximum.
C8_PercentilesAreNearestRank ==
    "all_stats" \in DOMAIN stats =>
       LET times == SuccessfulTimes(result)
           n     == Len(times)
           AtRank(v, idx) ==
              /\ \E j \in 1 .. n : times[j] = v
              /\ Cardinality({ j \in 1 .. n : times[j] < v }) <= idx
              /\ idx < Cardinality({ j \in 1 .. n : times[j] <= v })
           IsFloor(pct, idx) == 100 * idx <= pct * n /\ pct * n < 100 * (idx + 1)
       IN  /\ n >= 1
           /\ \E idx \in 0 .. n - 1 : IsFloor(95, idx) /\ AtRank(stats.all_stats.p95, idx)
           /\ \E idx \in 0 .. n - 1 : IsFloor(99, idx) /\ AtRank(stats.all_stats.p99, idx)
           /\ n = 20 => /\ IsFloor(95, 19)
                        /\ \A j \in 1 .. n : times[j] <= stats.all_stats.p95

C8_Witness ==
    /\ "all_stats" \in DOMAIN stats
    /\ Len(SuccessfulTimes(result)) = 20
    /\ stats.all_stats.p95 = stats.all_stats.max
    /\ stats.all_stats.min < stats.all_stats.max
    /\ \E j \in 1 .. 19 : SuccessfulTimes(result)[j] > SuccessfulTimes(result)[j + 1]

\* C9: calculate_stats of the data-structure benchmark returns an error
\* outcome without a latency table exactly when there is no result or no
\* successful result, and the two outcomes carry different texts.
C9_EmptyStatsOutcomes ==
    (config.bench = "ds" /\ stats # NoStats) =>
       LET n    == Len(result.operation_results)
           succ == Cardinality({ j \in 1 .. n : result.operation_results[j].success })
       IN  /\ ("error" \in DOMAIN stats) <=> (n = 0 \/ succ = 0)
           /\ ("error" \in DOMAIN stats) => "all_stats" \notin DOMAIN stats
           /\ ("error" \notin DOMAIN stats) => "all_stats" \in DOMAIN stats
           /\ n = 0 => stats.error = "No operations recorded"
           /\ (n > 0 /\ succ = 0) => stats.error = "No successful operations recorded"

C9_Witness ==
    /\ config.bench = "ds"
    /\ Len(result.operation_results) >= 2
    /\ stats = [error |-> "No successful operations recorded"]

\* C10: summarising a run with no recorded or no successful operation ends
\* in a "nothing to summarize" outcome and never in a crash.
C10_EmptySummaryNeverCrashes ==
    (stats # NoStats /\ "error" \in DOMAIN stats) => run_pc # "crashed"

\* C11: with read_write_ratio = 1.0 a data-structure run yields num_threads *
\* operations_per_thread records and every record, successful or failed,
\* names a read operation of its structure kind (so none names a write).
C11_AllRecordsNameReads ==
    (config.bench = "ds" /\ config.read_write_ratio = 2 /\ result # NoResult) =>
       /\ Len(result.operation_results)
            = config.num_threads * config.operations_per_thread
       /\ errors_of(result)
            = config.num_threads * config.operations_per_thread
                - successful_operations(result)
       /\ \A j \in 1 .. Len(result.operation_results) :
             result.operation_results[j].operation_type
                \in ReadOps(result.operation_results[j].data_structure)

\* the connectivity log as a sequence of flags, and the timestamp of sample j
Flags == [ j \in 1 .. Len(connection_status) |-> connection_status[j].connected ]

Stamp(j) == connection_status[j].timestamp

\* the first samples of the maximal runs of disconnected samples, in order
RunStarts ==
    SelectIdx([ j \in 1 .. Len(Flags) |-> j ],
              { j \in 1 .. Len(Flags) : ~Flags[j] /\ (j = 1 \/ Flags[j - 1]) })

\* the first connected sample after sample j, 0 when there is none
NextConnected(j) ==
    IF \E k \in j + 1 .. Len(Flags) : Flags[k]
    THEN CHOOSE k \in j + 1 .. Len(Flags) :
            Flags[k] /\ \A m \in j + 1 .. k - 1 : ~Flags[m]
    ELSE 0

\* C12: the interval list generate_report computes is in chronological
\* order and non-overlapping: an interval that has an end timestamp starts
\* no later than it ends, and ends no later than the next interval starts.
C12_IntervalsSortedDisjoint ==
    report # NoReport =>
       LET ds == report.disconnections
       IN  /\ \A k \in 1 .. Len(ds) : ds[k].end # SessionEnd => ds[k].start <= ds[k].end
           /\ \A k \in 1 .. Len(ds) - 1 :
                 ds[k].end # SessionEnd /\ ds[k].end <= ds[k + 1].start

C12_Witness ==
    /\ report # NoReport
    /\ Len(report.disconnections) = 3
    /\ ~Flags[1]
    /\ ~Flags[Len(Flags)]
    /\ report.disconnections[1].start = Stamp(1)
    /\ report.disconnections[2].start > report.disconnections[1].end

\* C13: the intervals are, in order, the maximal runs of disconnected
\* samples: one interval per run, from the timestamp of the run's first
\* sample to the timestamp of the first connected sample after the run (the
\* session-end marker when there is none); [T,T,F,F,F,T,T] gives [t2,t5].
C13_OneIntervalPerRun ==
    report # NoReport =>
       LET ds == report.disconnections
       IN  /\ Len(ds) = Len(RunStarts)
           /\ \A k \in 1 .. Len(ds) :
                 /\ ds[k].start = Stamp(RunStarts[k])
                 /\ ds[k].end = IF NextConnected(RunStarts[k]) = 0 THEN SessionEnd
                                ELSE Stamp(NextConnected(RunStarts[k]))
           /\ Flags = <<TRUE, TRUE, FALSE, FALSE, FALSE, TRUE, TRUE>> =>
                 ds = <<[start |-> Stamp(3), end |-> Stamp(6)]>>

C13_Witness ==
    /\ report # NoReport
    /\ Flags = <<TRUE, TRUE, FALSE, FALSE, FALSE, TRUE, TRUE>>
    /\ report.disconnections = <<[start |-> 2, end |-> 5]>>

\* C14: the last interval ends with the session-end marker if the sample
\* sequence ends disconnected; no interval carries the marker otherwise, and
\* never an interval other than the last.
C14_OpenIntervalEndsWithMarker ==
    report # NoReport =>
       LET ds == report.disconnections
           ends_disconnected == Flags # <<>> /\ ~Flags[Len(Flags)]
       IN  /\ ends_disconnected => (ds # <<>> /\ ds[Len(ds)].end = SessionEnd)
           /\ \A k \in 1 .. Len(ds) :
                 ds[k].end = SessionEnd => (ends_disconnected /\ k = Len(ds))

C14_Witness ==
    /\ report # NoReport
    /\ Len(Flags) >= 4
    /\ ~Flags[Len(Flags)] /\ ~Flags[Len(Flags) - 1] /\ Flags[Len(Flags) - 2]
    /\ Len(report.disconnections) = 2
    /\ report.disconnections[2] = [start |-> Stamp(Len(Flags) - 1), end |-> SessionEnd]
    /\ report.disconnections[1].end # SessionEnd

\* C15: in a written report an interval that ends with the session-end
\* marker has unknown duration for the table and for the longest-outage
\* statement alike: its row shows no duration, and the statement does not
\* give zero as the longest outage of a session that had such an outage.
C15_OpenIntervalNeverZero ==
    (report # NoReport /\ report.outcome = "written") =>
       \A k \in 1 .. Len(report.disconnections) :
          report.disconnections[k].end = SessionEnd =>
             /\ report.connection.events[k].duration = UnknownDuration
             /\ report.conclusion.longest # <<0>>

\* C16: for a non-empty log with every sample connected the interval list
\* is empty and the report says so in the connection section and in the
\* conclusion; with at least one disconnected sample the list is non-empty.
C16_NoDisconnectionIffAllConnected ==
    (report # NoReport /\ Flags # <<>>) =>
       /\ (\A j \in 1 .. Len(Flags) : Flags[j]) =>
             /\ report.disconnections = <<>>
             /\ report.outcome = "written"
             /\ report.connection.no_events_line
             /\ report.connection.events = <<>>
             /\ ~report.conclusion.detected
       /\ (\E j \in 1 .. Len(Flags) : ~Flags[j]) => report.disconnections # <<>>

C16_Witness ==
    /\ report # NoReport
    /\ Len(Flags) >= 3
    /\ \A j \in 1 .. Len(Flags) : Flags[j]
    /\ report.connection.no_events_line
    /\ ~report.conclusion.detected

\* the intervals that cover sample j: from their start up to, and not
\* including, the sample that closed them
Covering(j) ==
    { k \in 1 .. Len(report.disconnections) :
         /\ report.disconnections[k].start <= Stamp(j)
         /\ \/ report.disconnections[k].end = SessionEnd
            \/ Stamp(j) < report.disconnections[k].end }

\* C17: a disconnected sample lies in exactly one interval of the list and
\* a connected sample in none.
C17_SampleConnectedXorCovered ==
    report # NoReport =>
       \A j \in 1 .. Len(Flags) :
          Cardinality(Covering(j)) = (IF Flags[j] THEN 0 ELSE 1)

C17_Witness ==
    /\ report # NoReport
    /\ Len(report.disconnections) = 2
    /\ \E j \in 2 .. Len(Flags) - 1 :
          /\ ~Flags[j - 1] /\ ~Flags[j] /\ Flags[j + 1]
          /\ Covering(j - 1) = {1} /\ Covering(j) = {1} /\ Covering(j + 1) = {}
    /\ \E j \in 1 .. Len(Flags) : Covering(j) = {2}

\* C18: in the drift verdict a change of the read mean, or of the write
\* mean, between the halves split at floor(n/2) that is below 1.0 ms in
\* absolute value is never written as an increase or a decrease, and when
\* both are below 1.0 ms the verdict is "no significant change".
C18_SmallChangeIsNoChange ==
    (report # NoReport /\ report.outcome = "written"
       /\ report.drift.kind \in {"no_significant_change", "changes"}) =>
       /\ (BelowNoise(report.drift.read_change) /\ BelowNoise(report.drift.write_change))
              => report.drift.kind = "no_significant_change"
       /\ report.drift.kind = "changes" =>
              /\ ~BelowNoise(report.drift.read_change)
              /\ ~BelowNoise(report.drift.write_change)

\* C19: the drift analysis never takes the mean of an empty half, and a
\* written report always carries a drift verdict: "insufficient data" when
\* the latency samples are too few to compare.
C19_TooFewSamplesIsStated ==
    report # NoReport =>
       /\ report.outcome # "StatisticsError"
       /\ report.outcome = "written" => report.drift.kind # "omitted"

\* C20: a probe tick in which the ping, the timed write or the timed read
\* raised produces a disconnected sample with read latency 0 and write
\* latency 0, and appends nothing to the latency log: the latency log has
\* one entry per connected sample, with that sample's timestamp.
C20_FailedTickIsZeroSample ==
    /\ \A g \in Starts :
          (probe_pc[g] \in {"record", "sleep"} /\ ~connected[g]) =>
             (read_latency[g] = 0 /\ write_latency[g] = 0)
    /\ \A k \in 1 .. Len(metrics_queue) :
          (metrics_queue[k].type = "latency" /\ ~metrics_queue[k].connected) =>
             (metrics_queue[k].read_latency = 0 /\ metrics_queue[k].write_latency = 0)
    /\ [ k \in 1 .. Len(latency_metrics) |-> latency_metrics[k].timestamp ]
          = SelectIdx([ j \in 1 .. Len(connection_status) |-> Stamp(j) ],
                      { j \in 1 .. Len(connection_status) : Flags[j] })

\* C27: in the simple key-value benchmark with pipeline_size >= 1, a worker
\* that returns without any failed operation returns exactly
\* operations_per_thread latency entries and as many operation-type entries,
\* whether or not pipeline_size divides operations_per_thread.
C27_PipelineReturnsEveryEntry ==
    (config.bench = "kv" /\ use_pipeline) =>
       \A w \in Threads :
          (wpc[w] = "done" /\ local_errors[w] = 0) =>
             /\ Len(local_times[w]) = config.operations_per_thread
             /\ Len(local_op_types[w]) = config.operations_per_thread

\* C28: in the simple key-value benchmark with a pipeline, the number of
\* buffered operations a worker counts (pipe_count) is at most pipeline_size
\* in every state of its loop, also after a batch flush has failed; when the
\* worker returns nothing is left buffered.
C28_BufferedWithinPipelineSize ==
    (config.bench = "kv" /\ use_pipeline) =>
       \A w \in Threads :
          /\ wpc[w] \in {"loop", "flush", "tailflush"} =>
                pipe_count[w] <= config.pipeline_size
          /\ (wpc[w] = "done" /\ pipe_count[w] > 0) =>
                Len(local_times[w]) >= pipe_count[w]

\* C23: once stop_monitoring has returned, no monitor loop appends to
\* cloudwatch_metrics, latency_metrics or connection_status any more:
\* save_results and generate_report never run while a loop is still inside
\* a tick, even when joining a loop timed out.
C23_NoAppendAfterStopReturned ==
    [][ (mon_pc \in {"stopped", "saved", "save_raised"}) =>
          ( /\ cloudwatch_metrics' = cloudwatch_metrics
            /\ latency_metrics' = latency_metrics
            /\ connection_status' = connection_status ) ]_vars

\* C26: the live-status queue is bounded and has a single producer: all its
\* items come from one loop, and its length stays below a fixed capacity
\* however slow the status printer is (a capacity is smaller than the
\* number of items a long enough session puts; the sessions here put up to
\* MaxTicks + MaxPolls items).
C26_QueueBoundedSingleProducer ==
    /\ \A j \in 1 .. Len(metrics_queue), k \in 1 .. Len(metrics_queue) :
          metrics_queue[j].type = metrics_queue[k].type
    /\ Len(metrics_queue) < MaxTicks + MaxPolls

\* C29: generate_report, called by save_results at shutdown, completes and
\* writes a report for every connectivity log, the empty log (monitoring
\* stopped before the first probe tick finished) and a log whose only
\* outage is still open at the end included.
C29_ReportAlwaysWritten ==
    /\ mon_pc # "save_raised"
    /\ report # NoReport => report.outcome = "written"

\* C21: while the running flag stays set the probe loop never stops: after
\* any tick, connected or failed, another tick is eventually recorded (up to
\* the MaxTicks ticks of a session of the model), under fair scheduling of
\* the threads.
C21_ProbeLoopKeepsTicking ==
    \A n \in 0 .. MaxTicks - 1 :
       (running /\ Len(connection_status) = n)
          ~> (~running \/ Len(connection_status) > n)

C21_Witness ==
    /\ running
    /\ Len(connection_status) >= 2
    /\ ~connection_status[1].connected
    /\ connection_status[2].connected

\* the loop heads: a thread that has been started, or has slept after a tick,
\* is about to test the flag
LoopHead == {"started", "sleep"}

\* every loop that has been started has exited
NoLoopActive ==
    \A g \in Starts :
       /\ probe_pc[g] \in {"unborn", "exited"}
       /\ cw_pc[g] \in {"unborn", "exited"}
       /\ status_pc[g] \in {"unborn", "exited"}

\* C22: after stop_monitoring has cleared the running flag each of the three
\* loops eventually exits (or dies with the process), under fair scheduling
\* of the threads; a loop that tests the cleared flag at its head starts no
\* new tick, so it completes at most the tick it was in, and a loop that has
\* exited stays exited.
C22_LoopsExitAfterStop ==
    /\ ~running ~> (NoLoopActive \/ ~ProcessAlive)
    /\ [][ \A g \in Starts :
             /\ (~running /\ probe_pc[g] \in LoopHead) => probe_pc'[g] \in {probe_pc[g], "exited"}
             /\ (~running /\ cw_pc[g] \in LoopHead) => cw_pc'[g] \in {cw_pc[g], "exited"}
             /\ (~running /\ status_pc[g] \in LoopHead)
                   => status_pc'[g] \in {status_pc[g], "exited"}
             /\ probe_pc[g] = "exited" => probe_pc'[g] = "exited"
             /\ cw_pc[g] = "exited" => cw_pc'[g] = "exited"
             /\ status_pc[g] = "exited" => status_pc'[g] = "exited" ]_vars

C22_Witness ==
    /\ ~running
    /\ mon_pc = "joining"
    /\ probe_pc[1] = "exited"
    /\ cw_pc[1] = "exited"
    /\ status_pc[1] = "exited"
    /\ Len(connection_status) = 1
    /\ cw_polls = 1

\* C25: the metrics poll and the probe never block each other: whatever the
\* other loop is doing (a poll in flight, slow or failing, a probe waiting
\* on the socket), a loop that is inside a tick can take its next step, and
\* a loop at its head (below the caps of the model) can start its next tick.
C25_CadencesNeverBlockEachOther ==
    \A g \in Starts :
       /\ (ProcessAlive /\ probe_pc[g] \in {"ping", "set", "get", "record"})
             => ENABLED ProbeStep(g)
       /\ (ProcessAlive /\ probe_pc[g] \in LoopHead
             /\ (Len(connection_status) < MaxTicks \/ ~running))
             => ENABLED ProbeStep(g)
       /\ (ProcessAlive /\ cw_pc[g] = "poll") => ENABLED CwStep(g)
       /\ (ProcessAlive /\ cw_pc[g] \in LoopHead /\ (cw_polls < MaxPolls \/ ~running))
             => ENABLED CwStep(g)

\* the first poll is still in flight while the probe has recorded two ticks
C25_Witness ==
    /\ running
    /\ cw_pc[1] = "poll"
    /\ cw_polls = 0
    /\ Len(connection_status) = 2
    /\ status_pc[1] = "started"

\* the probe loops that have been started and have not exited
ActiveProbeLoops == { g \in Starts : probe_pc[g] \notin {"unborn", "exited"} }

\* C24: after any sequence of start_monitoring and stop_monitoring calls at
\* most one probe loop is active, and the connectivity samples are in
\* strictly increasing timestamp order.
C24_SingleProbeLoopInOrder ==
    /\ Cardinality(ActiveProbeLoops) <= 1
    /\ \A j \in 1 .. Len(connection_status) - 1 :
          connection_status[j].timestamp < connection_status[j + 1].timestamp

\* what the workers of the current run() returned, counted over its threads
ReturnedByWorkers(locals) ==
    SumSeq([ w \in 1 .. config.num_threads |-> Len(locals[w]) ])

\* the result run() has built holds what the workers of this run returned
HoldsThisRunOnly ==
    result # NoResult =>
       IF config.bench = "kv"
       THEN /\ Len(result.operation_times) = ReturnedByWorkers(local_times)
            /\ Len(result.operation_types) = ReturnedByWorkers(local_op_types)
            /\ result.errors = SumSeq([ w \in 1 .. config.num_threads |-> local_errors[w] ])
       ELSE Len(result.operation_results) = ReturnedByWorkers(local_results)

\* C30: a result returned by run() is sealed: it holds exactly the
\* operations of its run, also when run() is called again on the same
\* object, and a result returned earlier never changes afterwards.
C30_ResultIsSealed ==
    [][ /\ HoldsThisRunOnly'
        /\ (earlier_result # NoResult) => (earlier_result' = earlier_result) ]_vars

====
